---- MODULE Spec2Model ----
(***************************************************************************)
(* Model of the task manager's reactive state engine:                      *)
(*   src/src/models/todo-model.js     TodoModel (the store)                *)
(*   src/unnamed/part_001             StorageService (persistence)         *)
(*   src/src/components/todo-app.js   TodoApp (the controller)             *)
(* An item is a record [id, text, completed, wasCounted]. The createdAt    *)
(* timestamp of an item is written once by addTodo and read by no method   *)
(* of the store, so it is left out of the record. A text is a sequence     *)
(* of one-character strings, so that String.prototype.trim is computed.    *)
(***************************************************************************)
EXTENDS Integers, Sequences, FiniteSets, TLC

\* ------------------------------------------------------------------ bounds
\* addTodo is offered while nextId <= MaxId (the counter is unbounded in JS).
MaxId == 2
\* subscribe is offered while fewer than MaxSubscribes calls were made.
MaxSubscribes == 2
\* The bound on nextId where the order of three items matters.
MaxListId == 3
\* Over a backend that fails now and then addTodo is offered while the list
\* holds fewer than MaxPartialLen items.
MaxPartialLen == 2

\* ------------------------------------------------------------ input values
WhiteSpace == {" ", "\t"}

Str(chars) == [type |-> "string", chars |-> chars]

\* A value for which typeof is not 'string' (undefined, a number, ...).
NotAString == [type |-> "undefined", chars |-> <<>>]

\* The texts a caller passes to addTodo / updateTodo.
TextInputs ==
  { Str(<<>>), Str(<<" ", "\t">>), Str(<<"a">>),
    Str(<<" ", "b", " ", "c", "\t">>), NotAString }

\* The callbacks a caller may pass to subscribe.
Callbacks == {"cb1"}

\* The ids a caller passes to toggleComplete / deleteTodo / updateTodo.
IdInputs == 1..MaxId

\* The arrow function the TodoApp constructor passes to subscribe.
appListener == "app"

AllCallbacks == Callbacks \cup {appListener}

\* ------------------------------------------------------------------- state
VARIABLES
  todos,           \* TodoModel.todos: sequence of items
  nextId,          \* TodoModel.#nextId
  completedTotal,  \* TodoModel.#completedTotal
  listeners,       \* TodoModel.#listeners: a Set of callbacks
  unsubscribers,   \* the unsubscribe closures handed out, each bound to its callback
  storage,         \* the backend of StorageService.#storage: "ok", "absent", "failing" or "full"
  backing,         \* the backend's content: backing key -> stored text (or Null)
  serviceCall,     \* the most recent direct call of a StorageService method: arguments and result
  ret,             \* what the most recent mutating call returned
  notified,        \* callback -> number of times the most recent call invoked it
  lastCall,        \* name of the most recent call
  \* history of the run, read by the properties only
  issuedEpoch,     \* ids given by addTodo since the latest successful clearAll, in order
  issuedEver,      \* ids given by addTodo since construction
  everCompleted,   \* ids of the items completed at least once since the latest successful clearAll
  mutated,         \* some mutation returned true since construction
  dirty,           \* some mutation other than clearAll returned true since the latest successful clearAll
  unsubscribed,    \* callbacks whose unsubscribe closure was called and that were not subscribed again since
  unsubscribeCalled, \* which of the unsubscribe closures handed out (by position) have been called
  \* TodoApp
  appTodos,        \* TodoApp.todos: the controller's copy of the list
  autoClearTimers, \* TodoApp.autoClearTimers: Map from item id to timer handle
  pendingDeletionIds, \* TodoApp.pendingDeletionIds
  armed,           \* the timers setTimeout has armed and that neither fired nor were cleared
  clearedTimers,   \* the armed timers the most recent handler or callback called clearTimeout on
  lastHandler,     \* name of the most recent handler or callback of the controller
  \* the call in progress, where #commit is followed statement by statement
  stepwise,        \* whether a step is one statement of #commit (TRUE) or a whole call (FALSE)
  pc,              \* position of the call in progress inside #commit; "idle" between calls
  preCall          \* todos, nextId and completedTotal as they were when the call in progress began

storeVars == <<todos, nextId, completedTotal>>
subsVars == <<listeners, unsubscribers, unsubscribed, unsubscribeCalled>>
histVars == <<issuedEpoch, issuedEver, everCompleted, mutated, dirty>>
commitVars == <<stepwise, preCall>>
appVars == <<appTodos, autoClearTimers, pendingDeletionIds, armed, clearedTimers, lastHandler>>
vars == <<todos, nextId, completedTotal, listeners, unsubscribers, storage, backing,
          serviceCall,
          ret, notified, lastCall, issuedEpoch, issuedEver,
          everCompleted, mutated, dirty, unsubscribed, unsubscribeCalled,
          appTodos, autoClearTimers, pendingDeletionIds, armed, clearedTimers, lastHandler,
          stepwise, pc, preCall>>

\* ----------------------------------------------------------------- helpers
RECURSIVE trimStart(_)
trimStart(s) ==
  IF s # <<>> /\ Head(s) \in WhiteSpace THEN trimStart(Tail(s)) ELSE s

RECURSIVE trimEnd(_)
trimEnd(s) ==
  IF s # <<>> /\ s[Len(s)] \in WhiteSpace THEN trimEnd(SubSeq(s, 1, Len(s) - 1)) ELSE s

\* Mutant: the text is taken untrimmed.
trimmedText_NoTrim(text) ==
  IF text.type = "string" THEN text.chars ELSE <<>>

\* typeof text === 'string' ? text.trim() : ''
trimmedText(text) ==
  IF text.type = "string" THEN trimEnd(trimStart(text.chars)) ELSE <<>>

\* ----------------------------------------------------------- StorageService
\* Keys are sequences of characters, so that the prefix is really prepended.
storageKey == <<"t", "o", "d", "o", "s">>
KeyItems == <<"i", "t", "e", "m", "s">>
KeyNextId == <<"n", "e", "x", "t", "I", "d">>
KeyCompletedTotal == <<"c", "o", "m", "p", "l", "e", "t", "e", "d", "T", "o", "t", "a", "l">>

buildKey(keySuffix) == storageKey \o <<"_">> \o keySuffix

BackingKeys == {buildKey(KeyItems), buildKey(KeyNextId), buildKey(KeyCompletedTotal)}

\* getItem's answer for a key the backend does not hold.
Null == [kind |-> "null"]

\* No method of the service was called directly yet.
NoServiceCall == [op |-> "none"]

\* A stored text of length zero, and one that is not JSON ('not json').
EmptyText == [kind |-> "empty"]
NotJson == [kind |-> "garbage"]

\* Values handed to save / returned by load: numbers, arrays of items,
\* strings (Str), booleans, null and a plain object.
NumVal(n) == [type |-> "number", n |-> n]
ArrayVal(items) == [type |-> "array", items |-> items]
BoolVal(b) == [type |-> "boolean", b |-> b]
NullVal == [type |-> "null"]
ObjVal(o) == [type |-> "object", o |-> o]

DigitChars == <<"0", "1", "2", "3", "4", "5", "6", "7", "8", "9">>

RECURSIVE digitsOf(_)
digitsOf(n) ==
  IF n < 10 THEN <<DigitChars[n + 1]>>
  ELSE digitsOf(n \div 10) \o <<DigitChars[(n % 10) + 1]>>

digitValue(c) == CHOOSE d \in 0..9 : DigitChars[d + 1] = c

RECURSIVE numberOf(_)
numberOf(digits) ==
  IF digits = <<>> THEN 0
  ELSE 10 * numberOf(SubSeq(digits, 1, Len(digits) - 1)) + digitValue(digits[Len(digits)])

\* The text of one item object, and the object read back from it.
objectText(o) ==
  [id |-> digitsOf(o.id), text |-> o.text,
   completed |-> o.completed, wasCounted |-> o.wasCounted]

objectOf(e) ==
  [id |-> numberOf(e.id), text |-> e.text,
   completed |-> e.completed, wasCounted |-> e.wasCounted]

\* JSON.stringify of a non-negative integer, an array of items, a string,
\* a boolean, null or a plain object.
JSONstringify(data) ==
  CASE data.type = "number" -> [kind |-> "number", digits |-> digitsOf(data.n)]
    [] data.type = "array" ->
         [kind |-> "array", elems |-> [i \in DOMAIN data.items |-> objectText(data.items[i])]]
    [] data.type = "string" -> [kind |-> "string", chars |-> data.chars]
    [] data.type = "boolean" -> [kind |-> "boolean", b |-> data.b]
    [] data.type = "null" -> [kind |-> "jsonnull"]
    [] data.type = "object" -> [kind |-> "object", o |-> objectText(data.o)]

\* JSON.parse of a stored text that is JSON.
JSONparse(item) ==
  CASE item.kind = "number" -> NumVal(numberOf(item.digits))
    [] item.kind = "array" -> ArrayVal([i \in DOMAIN item.elems |-> objectOf(item.elems[i])])
    [] item.kind = "string" -> Str(item.chars)
    [] item.kind = "boolean" -> BoolVal(item.b)
    [] item.kind = "jsonnull" -> NullVal
    [] item.kind = "object" -> ObjVal(objectOf(item.o))

\* Whether one setItem call may throw: a failing backend throws now and then,
\* a full one (its quota used up) throws every time.
SetItemThrows ==
  IF storage = "failing" THEN {TRUE, FALSE}
  ELSE IF storage = "full" THEN {TRUE}
  ELSE {FALSE}

\* StorageService.save: the backend's content after save(key, data).
save(b, key, data, throws) ==
  IF storage = "absent" THEN b
  ELSE IF throws THEN b
  ELSE [b EXCEPT ![buildKey(key)] = JSONstringify(data)]

\* Whether JSON.parse accepts a stored text; for any other text it throws.
Parses(item) ==
  item.kind \in {"number", "array", "string", "boolean", "jsonnull", "object"}

\* The condition of `item ? JSON.parse(item) : defaultValue`: null and the
\* empty string are falsy.
truthy(item) == item.kind \notin {"null", "empty"}

\* Mutant: an exception of JSON.parse leaves load.
loadRaises_Rethrows(b, key) ==
  /\ storage # "absent"
  /\ truthy(b[buildKey(key)])
  /\ ~Parses(b[buildKey(key)])

\* Whether load(key, ...) raises: the whole body is inside try / catch.
loadRaises(b, key) == FALSE

\* Mutant: a falsy stored value is replaced by the default.
load_DefaultsOnFalsy(b, key, defaultValue) ==
  IF storage = "absent" THEN defaultValue
  ELSE LET item == b[buildKey(key)]
       IN IF ~truthy(item) THEN defaultValue
          ELSE IF Parses(item)
               THEN IF JSONparse(item) \in {BoolVal(FALSE), NumVal(0), Str(<<>>), NullVal}
                    THEN defaultValue ELSE JSONparse(item)
          ELSE defaultValue

\* StorageService.load
load(b, key, defaultValue) ==
  IF storage = "absent" THEN defaultValue
  ELSE LET item == b[buildKey(key)]
       IN IF ~truthy(item) THEN defaultValue
          ELSE IF Parses(item) THEN JSONparse(item)
          ELSE defaultValue

\* StorageService.remove: the backend's content after remove(key).
remove(b, key) ==
  IF storage = "absent" THEN b
  ELSE [b EXCEPT ![buildKey(key)] = Null]

\* String.prototype.startsWith
startsWith(key, prefix) ==
  /\ Len(key) >= Len(prefix)
  /\ SubSeq(key, 1, Len(prefix)) = prefix

\* StorageService.clear: the keys the backend holds that start with
\* storageKey are collected, then removed.
clear(b) ==
  IF storage = "absent" THEN b
  ELSE [k \in DOMAIN b |->
          IF b[k] # Null /\ startsWith(k, storageKey) THEN Null ELSE b[k]]

\* ---------------------------------------------------------------- TodoModel
NoCalls == [c \in AllCallbacks |-> 0]

\* The longest prefix of decimal digits of a string.
RECURSIVE digitPrefix(_)
digitPrefix(s) ==
  IF s # <<>> /\ (\E d \in DOMAIN DigitChars : DigitChars[d] = Head(s))
  THEN <<Head(s)>> \o digitPrefix(Tail(s)) ELSE <<>>

\* Number.parseInt(string, 10): leading white space is skipped, a sign is
\* read, then the digits up to the first other character; NaN when there
\* is no digit.
NaN == [type |-> "NaN"]

parseInt(s) ==
  LET t == trimStart(s)
      signed == t # <<>> /\ Head(t) \in {"-", "+"}
      digits == digitPrefix(IF signed THEN Tail(t) ELSE t)
  IN IF digits = <<>> THEN NaN
     ELSE NumVal(IF signed /\ Head(t) = "-" THEN 0 - numberOf(digits) ELSE numberOf(digits))

\* Mutant: only a stored number is read, a string is not parsed.
parseIntOr_NumbersOnly(value, fallback) ==
  IF value.type = "number" /\ value.n # 0 THEN value.n ELSE fallback

\* Number.parseInt(value, 10) || fallback, for the values load returns:
\* a number is its own integer, a string is parsed, and the string forms of
\* booleans, null, objects and arrays of objects hold no digit. NaN and 0
\* are falsy.
parseIntOr(value, fallback) ==
  LET parsed == CASE value.type = "number" -> value
                  [] value.type = "string" -> parseInt(value.chars)
                  [] OTHER -> NaN
  IN IF parsed # NaN /\ parsed.n # 0 THEN parsed.n ELSE fallback

\* The fields the constructor sets from the persisted snapshot.
constructor(b) ==
  LET storedTodos == load(b, KeyItems, ArrayVal(<<>>))
  IN [todos |-> IF storedTodos.type = "array" THEN storedTodos.items ELSE <<>>,
      nextId |-> parseIntOr(load(b, KeyNextId, NumVal(1)), 1),
      completedTotal |-> parseIntOr(load(b, KeyCompletedTotal, NumVal(0)), 0)]

\* The item addTodo creates.
newTodo(id, trimmed) ==
  [id |-> id, text |-> trimmed, completed |-> FALSE, wasCounted |-> FALSE]

\* Mutant: the id counter is left out of the snapshot.
persist_SkipsNextId ==
  \E t1 \in SetItemThrows, t3 \in SetItemThrows :
    backing' = save(save(backing, KeyItems, ArrayVal(todos'), t1),
                    KeyCompletedTotal, NumVal(completedTotal'), t3)

\* #persist: three saves of the state the mutation has just produced.
persist ==
  \E t1 \in SetItemThrows, t2 \in SetItemThrows, t3 \in SetItemThrows :
    backing' = save(save(save(backing, KeyItems, ArrayVal(todos'), t1),
                         KeyNextId, NumVal(nextId'), t2),
                    KeyCompletedTotal, NumVal(completedTotal'), t3)

\* Mutant: notify runs the callbacks that were ever handed to subscribe.
notify_IgnoresUnsubscribe ==
  notified' = [c \in AllCallbacks |->
                 IF \E i \in DOMAIN unsubscribers : unsubscribers[i] = c THEN 1 ELSE 0]

\* notify: every listener of the Set is invoked once.
notify == notified' = [c \in AllCallbacks |-> IF c \in listeners THEN 1 ELSE 0]

\* Mutant: #commit calls notify before #persist.
commit_NotifiesBeforePersist(didChange) ==
  IF ~didChange
  THEN ret' = FALSE /\ notified' = NoCalls /\ UNCHANGED <<backing, pc>>
  ELSE IF stepwise
       THEN pc' = "persist_items" /\ notify /\ UNCHANGED <<backing, ret>>
       ELSE persist /\ notify /\ ret' = TRUE /\ UNCHANGED pc

\* #commit. Where the call is one step, #persist, notify and the return
\* happen in it; where #commit is followed statement by statement, the step
\* that made the assignments ends at the call of #persist.
commit(didChange) ==
  IF ~didChange
  THEN ret' = FALSE /\ notified' = NoCalls /\ UNCHANGED <<backing, pc>>
  ELSE IF stepwise
       THEN pc' = "persist_items" /\ notified' = NoCalls /\ UNCHANGED <<backing, ret>>
       ELSE persist /\ notify /\ ret' = TRUE /\ UNCHANGED pc

\* An early `return false`, before any assignment.
returnFalse ==
  ret' = FALSE /\ notified' = NoCalls /\ UNCHANGED <<storeVars, backing, pc>>

\* Mutant: the id counter is not advanced.
addTodo_NoIncrement(text) ==
  LET trimmed == trimmedText(text)
  IN IF trimmed = <<>>
     THEN returnFalse
     ELSE /\ todos' = Append(todos, newTodo(nextId, trimmed))
          /\ UNCHANGED <<nextId, completedTotal>>
          /\ commit(TRUE)

\* Mutant: the id is taken from the length of the list.
addTodo_IdFromLength(text) ==
  LET trimmed == trimmedText(text)
  IN IF trimmed = <<>>
     THEN returnFalse
     ELSE /\ todos' = Append(todos, newTodo(Len(todos) + 1, trimmed))
          /\ nextId' = nextId + 1
          /\ UNCHANGED completedTotal
          /\ commit(TRUE)

\* Mutant: the new item is put in front of the list.
addTodo_Prepend(text) ==
  LET trimmed == trimmedText(text)
  IN IF trimmed = <<>>
     THEN returnFalse
     ELSE /\ todos' = <<newTodo(nextId, trimmed)>> \o todos
          /\ nextId' = nextId + 1
          /\ UNCHANGED completedTotal
          /\ commit(TRUE)

\* Mutant: the text is tested trimmed and stored as it was given.
addTodo_StoresRawText(text) ==
  LET trimmed == trimmedText(text)
  IN IF trimmed = <<>>
     THEN returnFalse
     ELSE /\ todos' = Append(todos, newTodo(nextId, text.chars))
          /\ nextId' = nextId + 1
          /\ UNCHANGED completedTotal
          /\ commit(TRUE)

addTodo(text) ==
  LET trimmed == trimmedText(text)
  IN IF trimmed = <<>>
     THEN returnFalse
     ELSE /\ todos' = Append(todos, newTodo(nextId, trimmed))
          /\ nextId' = nextId + 1
          /\ UNCHANGED completedTotal
          /\ commit(TRUE)

\* Mutant: making an item active again clears its wasCounted flag.
toggled_ResetsWasCounted(todo) ==
  LET flipped == [todo EXCEPT !.completed = ~todo.completed]
  IN IF ~todo.completed /\ flipped.completed /\ ~todo.wasCounted
     THEN [flipped EXCEPT !.wasCounted = TRUE]
     ELSE IF ~flipped.completed
          THEN [flipped EXCEPT !.wasCounted = FALSE]
          ELSE flipped

\* The map callback of toggleComplete, for a matching item.
toggled(todo) ==
  LET flipped == [todo EXCEPT !.completed = ~todo.completed]
  IN IF ~todo.completed /\ flipped.completed /\ ~todo.wasCounted
     THEN [flipped EXCEPT !.wasCounted = TRUE]
     ELSE IF ~flipped.completed
          THEN [flipped EXCEPT !.wasCounted = todo.wasCounted]
          ELSE flipped

\* Mutant: every completion is counted, wasCounted is not consulted.
countsCompletion_EveryCompletion(todo) == ~todo.completed

\* Whether the map callback adds 1 to nextCompletedTotal for a matching item.
countsCompletion(todo) == ~todo.completed /\ ~todo.wasCounted

toggleComplete(id) ==
  LET matching == {i \in DOMAIN todos : todos[i].id = id}
      updated == matching # {}
      nextCompletedTotal ==
        completedTotal + Cardinality({i \in matching : countsCompletion(todos[i])})
  IN /\ todos' = [i \in DOMAIN todos |->
                    IF todos[i].id # id THEN todos[i] ELSE toggled(todos[i])]
     /\ completedTotal' = IF updated THEN nextCompletedTotal ELSE completedTotal
     /\ UNCHANGED nextId
     /\ commit(updated)

\* Array.prototype.filter is SelectSeq: the kept items, in their order.
\* Mutant: deleting a completed item takes it out of the lifetime counter.
deleteTodo_DecrementsTotal(id) ==
  LET keep(todo) == todo.id # id
      nextTodos == SelectSeq(todos, keep)
      didChange == Len(nextTodos) # Len(todos)
      removedCompleted ==
        Cardinality({i \in DOMAIN todos : todos[i].id = id /\ todos[i].completed})
  IN /\ todos' = IF didChange THEN nextTodos ELSE todos
     /\ completedTotal' = completedTotal - removedCompleted
     /\ UNCHANGED nextId
     /\ commit(didChange)

\* Mutant: the items after the deleted one are dropped with it.
deleteTodo_DropsFollowing(id) ==
  LET matching == {i \in DOMAIN todos : todos[i].id = id}
      nextTodos == IF matching = {} THEN todos
                   ELSE SubSeq(todos, 1, (CHOOSE i \in matching : TRUE) - 1)
      didChange == Len(nextTodos) # Len(todos)
  IN /\ todos' = IF didChange THEN nextTodos ELSE todos
     /\ UNCHANGED <<nextId, completedTotal>>
     /\ commit(didChange)

deleteTodo(id) ==
  LET keep(todo) == todo.id # id
      nextTodos == SelectSeq(todos, keep)
      didChange == Len(nextTodos) # Len(todos)
  IN /\ todos' = IF didChange THEN nextTodos ELSE todos
     /\ UNCHANGED <<nextId, completedTotal>>
     /\ commit(didChange)

\* Mutant: an unchanged text is written and committed like a new one.
updateTodo_NoSameTextCheck(id, newText) ==
  LET trimmed == trimmedText(newText)
      updated == \E i \in DOMAIN todos : todos[i].id = id
  IN IF trimmed = <<>>
     THEN returnFalse
     ELSE /\ todos' = [i \in DOMAIN todos |->
                         IF todos[i].id # id THEN todos[i]
                         ELSE [todos[i] EXCEPT !.text = trimmed]]
          /\ UNCHANGED <<nextId, completedTotal>>
          /\ commit(updated)

\* Mutant: the text is stored as it was passed, untrimmed.
updateTodo_StoresRawText(id, newText) ==
  LET trimmed == trimmedText(newText)
      updated == \E i \in DOMAIN todos : todos[i].id = id /\ todos[i].text # trimmed
  IN IF trimmed = <<>>
     THEN returnFalse
     ELSE /\ todos' = [i \in DOMAIN todos |->
                         IF todos[i].id # id THEN todos[i]
                         ELSE IF todos[i].text = trimmed THEN todos[i]
                         ELSE [todos[i] EXCEPT !.text = newText.chars]]
          /\ UNCHANGED <<nextId, completedTotal>>
          /\ commit(updated)

updateTodo(id, newText) ==
  LET trimmed == trimmedText(newText)
      updated == \E i \in DOMAIN todos : todos[i].id = id /\ todos[i].text # trimmed
  IN IF trimmed = <<>>
     THEN returnFalse
     ELSE /\ todos' = [i \in DOMAIN todos |->
                         IF todos[i].id # id THEN todos[i]
                         ELSE IF todos[i].text = trimmed THEN todos[i]
                         ELSE [todos[i] EXCEPT !.text = trimmed]]
          /\ UNCHANGED <<nextId, completedTotal>>
          /\ commit(updated)

\* Mutant: the kept items come out in reverse order.
clearCompleted_ReversesKept ==
  LET keep(todo) == ~todo.completed
      kept == SelectSeq(todos, keep)
      nextTodos == [k \in DOMAIN kept |-> kept[Len(kept) + 1 - k]]
      didChange == Len(nextTodos) # Len(todos)
  IN /\ todos' = IF didChange THEN nextTodos ELSE todos
     /\ UNCHANGED <<nextId, completedTotal>>
     /\ commit(didChange)

clearCompleted ==
  LET keep(todo) == ~todo.completed
      nextTodos == SelectSeq(todos, keep)
      didChange == Len(nextTodos) # Len(todos)
  IN /\ todos' = IF didChange THEN nextTodos ELSE todos
     /\ UNCHANGED <<nextId, completedTotal>>
     /\ commit(didChange)

\* Mutant: an empty list alone makes clearAll a no-op.
clearAll_NoOpWhenEmpty ==
  IF Len(todos) = 0
  THEN returnFalse
  ELSE /\ todos' = <<>>
       /\ nextId' = 1
       /\ completedTotal' = 0
       /\ commit(TRUE)

\* Mutant: the lifetime counter is not reset.
clearAll_KeepsTotal ==
  IF Len(todos) = 0 /\ nextId = 1
  THEN returnFalse
  ELSE /\ todos' = <<>>
       /\ nextId' = 1
       /\ UNCHANGED completedTotal
       /\ commit(TRUE)

clearAll ==
  IF Len(todos) = 0 /\ nextId = 1
  THEN returnFalse
  ELSE /\ todos' = <<>>
       /\ nextId' = 1
       /\ completedTotal' = 0
       /\ commit(TRUE)

activeCount == Cardinality({i \in DOMAIN todos : ~todos[i].completed})

\* Mutant: the count is recomputed from the list.
completedCount_Recomputed == Cardinality({i \in DOMAIN todos : todos[i].completed})

completedCount == completedTotal

subscribe(listener) ==
  /\ listeners' = listeners \cup {listener}
  /\ unsubscribers' = Append(unsubscribers, listener)

\* Calling the i-th unsubscribe closure handed out.
unsubscribe(i) ==
  /\ listeners' = listeners \ {unsubscribers[i]}
  /\ UNCHANGED unsubscribers

\* ------------------------------------------------------------------ history
completedIds(items) == {items[i].id : i \in {j \in DOMAIN items : items[j].completed}}

\* What a mutating call named `name` adds to the history of the run.
History(name) ==
  LET added == name = "addTodo" /\ ret'
      cleared == name = "clearAll" /\ ret'
      newId == todos'[Len(todos')].id
  IN /\ lastCall' = name
     /\ issuedEpoch' = IF cleared THEN <<>>
                       ELSE IF added THEN Append(issuedEpoch, newId) ELSE issuedEpoch
     /\ issuedEver' = IF added THEN issuedEver \cup {newId} ELSE issuedEver
     /\ everCompleted' = (IF cleared THEN {} ELSE everCompleted) \cup completedIds(todos')
     /\ mutated' = (mutated \/ ret')
     /\ dirty' = IF name = "clearAll" THEN (dirty /\ ~ret') ELSE (dirty \/ ret')

\* ----------------------------------------------------------- specification
Init ==
  /\ storage = "ok"
  /\ backing = [k \in BackingKeys |-> Null]
  /\ serviceCall = NoServiceCall
  /\ todos = constructor(backing).todos
  /\ nextId = constructor(backing).nextId
  /\ completedTotal = constructor(backing).completedTotal
  /\ listeners = {}
  /\ unsubscribers = <<>>
  /\ ret = FALSE
  /\ notified = NoCalls
  /\ lastCall = "constructor"
  /\ issuedEpoch = <<>>
  /\ issuedEver = {}
  /\ everCompleted = {}
  /\ mutated = FALSE
  /\ dirty = FALSE
  /\ unsubscribed = {}
  /\ unsubscribeCalled = {}
  /\ appTodos = <<>>
  /\ autoClearTimers = <<>>
  /\ pendingDeletionIds = {}
  /\ armed = {}
  /\ clearedTimers = {}
  /\ lastHandler = "none"
  /\ stepwise = FALSE
  /\ pc = "idle"
  /\ preCall = [todos |-> todos, nextId |-> nextId, completedTotal |-> completedTotal]

\* One call of each method of the store, with what it adds to the history.
AddTodoStep(text) ==
  /\ addTodo(text)
  /\ History("addTodo")
  /\ UNCHANGED <<subsVars, storage, serviceCall, appVars, commitVars>>

ToggleCompleteStep(id) ==
  /\ toggleComplete(id)
  /\ History("toggleComplete")
  /\ UNCHANGED <<subsVars, storage, serviceCall, appVars, commitVars>>

DeleteTodoStep(id) ==
  /\ deleteTodo(id)
  /\ History("deleteTodo")
  /\ UNCHANGED <<subsVars, storage, serviceCall, appVars, commitVars>>

UpdateTodoStep(id, newText) ==
  /\ updateTodo(id, newText)
  /\ History("updateTodo")
  /\ UNCHANGED <<subsVars, storage, serviceCall, appVars, commitVars>>

ClearCompletedStep ==
  /\ clearCompleted
  /\ History("clearCompleted")
  /\ UNCHANGED <<subsVars, storage, serviceCall, appVars, commitVars>>

ClearAllStep ==
  /\ clearAll
  /\ History("clearAll")
  /\ UNCHANGED <<subsVars, storage, serviceCall, appVars, commitVars>>

SubscribeStep(listener) ==
  /\ subscribe(listener)
  /\ unsubscribed' = unsubscribed \ {listener}
  /\ UNCHANGED unsubscribeCalled
  /\ lastCall' = "subscribe"
  /\ notified' = NoCalls
  /\ UNCHANGED <<storeVars, storage, serviceCall, backing, ret, histVars, appVars, pc, commitVars>>

UnsubscribeStep(i) ==
  /\ unsubscribe(i)
  /\ unsubscribed' = unsubscribed \cup {unsubscribers[i]}
  /\ unsubscribeCalled' = unsubscribeCalled \cup {i}
  /\ lastCall' = "unsubscribe"
  /\ notified' = NoCalls
  /\ UNCHANGED <<storeVars, storage, serviceCall, backing, ret, histVars, appVars, pc, commitVars>>

\* The calls a client of the store makes, within the bounds.
CallAddTodo ==
  \E text \in TextInputs :
    /\ trimmedText(text) # <<>> => nextId <= MaxId
    /\ AddTodoStep(text)

CallToggleComplete == \E id \in IdInputs : ToggleCompleteStep(id)

CallDeleteTodo == \E id \in IdInputs : DeleteTodoStep(id)

CallUpdateTodo == \E id \in IdInputs, text \in TextInputs : UpdateTodoStep(id, text)

CallSubscribe ==
  \E listener \in Callbacks :
    /\ Len(unsubscribers) < MaxSubscribes
    /\ SubscribeStep(listener)

CallUnsubscribe == \E i \in DOMAIN unsubscribers : UnsubscribeStep(i)

Next ==
  \/ CallAddTodo
  \/ CallToggleComplete
  \/ CallDeleteTodo
  \/ CallUpdateTodo
  \/ ClearCompletedStep
  \/ ClearAllStep
  \/ CallSubscribe
  \/ CallUnsubscribe

Spec == Init /\ [][Next]_vars

\* The store with lists of up to MaxListId items and one subscriber, driven by
\* the calls that add, complete and remove items.
ListAddTodo ==
  \E text \in {Str(<<"a">>), Str(<<>>)} :
    /\ trimmedText(text) # <<>> => nextId <= MaxListId
    /\ AddTodoStep(text)

ListToggleComplete == \E id \in 1..MaxListId : ToggleCompleteStep(id)

ListDeleteTodo == \E id \in 1..MaxListId : DeleteTodoStep(id)

ListSubscribe == \E listener \in Callbacks : unsubscribers = <<>> /\ SubscribeStep(listener)

NextLists ==
  \/ ListAddTodo
  \/ ListToggleComplete
  \/ ListDeleteTodo
  \/ ClearCompletedStep
  \/ ListSubscribe

SpecLists == Init /\ [][NextLists]_vars

\* --------------------------------------------- #commit, statement by statement
\* Mutant: the catch block of save throws the error on.
saveRaises_Rethrows(throws) == throws

\* Whether save(key, data) ends by raising when setItem throws: the catch
\* block logs the error and returns.
saveRaises(throws) == FALSE

\* One this.#storage.save(key, data) statement of #persist, then on to `next`.
saveStatement(key, data, next) ==
  \E throws \in SetItemThrows :
    IF saveRaises(throws)
    THEN pc' = "raised" /\ UNCHANGED backing
    ELSE backing' = save(backing, key, data, throws) /\ pc' = next

\* What a statement of #commit leaves alone besides the store's fields.
commitFrame ==
  UNCHANGED <<storeVars, subsVars, storage, serviceCall, lastCall, histVars, appVars, commitVars>>

PersistItems ==
  /\ pc = "persist_items"
  /\ saveStatement(KeyItems, ArrayVal(todos), "persist_nextId")
  /\ UNCHANGED <<ret, notified>>
  /\ commitFrame

PersistNextId ==
  /\ pc = "persist_nextId"
  /\ saveStatement(KeyNextId, NumVal(nextId), "persist_completedTotal")
  /\ UNCHANGED <<ret, notified>>
  /\ commitFrame

PersistCompletedTotal ==
  /\ pc = "persist_completedTotal"
  /\ saveStatement(KeyCompletedTotal, NumVal(completedTotal), "notify")
  /\ UNCHANGED <<ret, notified>>
  /\ commitFrame

\* this.notify(): the callbacks run, reading the store and the backend as
\* they are in this state.
Notify ==
  /\ pc = "notify"
  /\ notify
  /\ pc' = "return"
  /\ UNCHANGED <<ret, backing>>
  /\ commitFrame

\* return true
ReturnTrue ==
  /\ pc = "return"
  /\ ret' = TRUE
  /\ pc' = "idle"
  /\ UNCHANGED <<notified, backing>>
  /\ commitFrame

\* A call of a method of the store begins: its assignments, up to #commit.
beginCall(name) ==
  /\ pc = "idle"
  /\ lastCall' = name
  /\ preCall' = [todos |-> todos, nextId |-> nextId, completedTotal |-> completedTotal]
  /\ UNCHANGED <<subsVars, storage, serviceCall, histVars, appVars, stepwise>>

BeginAddTodo ==
  \E text \in {Str(<<"a">>), Str(<<" ", "\t">>)} :
    /\ trimmedText(text) # <<>> => nextId <= MaxId
    /\ addTodo(text)
    /\ beginCall("addTodo")

BeginToggleComplete == \E id \in IdInputs : toggleComplete(id) /\ beginCall("toggleComplete")

BeginDeleteTodo == \E id \in IdInputs : deleteTodo(id) /\ beginCall("deleteTodo")

BeginUpdateTodo ==
  \E id \in IdInputs : updateTodo(id, Str(<<" ", "b", " ", "c", "\t">>)) /\ beginCall("updateTodo")

BeginClearCompleted == clearCompleted /\ beginCall("clearCompleted")

BeginClearAll == clearAll /\ beginCall("clearAll")

SubscribeBetweenCalls ==
  \E listener \in Callbacks :
    /\ pc = "idle"
    /\ unsubscribers = <<>>
    /\ SubscribeStep(listener)

InitCommit ==
  /\ storage \in {"ok", "full", "absent"}
  /\ backing = [k \in BackingKeys |-> Null]
  /\ serviceCall = NoServiceCall
  /\ todos = constructor(backing).todos
  /\ nextId = constructor(backing).nextId
  /\ completedTotal = constructor(backing).completedTotal
  /\ listeners = {}
  /\ unsubscribers = <<>>
  /\ unsubscribed = {}
  /\ unsubscribeCalled = {}
  /\ ret = FALSE
  /\ notified = NoCalls
  /\ lastCall = "constructor"
  /\ issuedEpoch = <<>>
  /\ issuedEver = {}
  /\ everCompleted = {}
  /\ mutated = FALSE
  /\ dirty = FALSE
  /\ appTodos = <<>>
  /\ autoClearTimers = <<>>
  /\ pendingDeletionIds = {}
  /\ armed = {}
  /\ clearedTimers = {}
  /\ lastHandler = "none"
  /\ stepwise = TRUE
  /\ pc = "idle"
  /\ preCall = [todos |-> todos, nextId |-> nextId, completedTotal |-> completedTotal]

NextCommit ==
  \/ BeginAddTodo
  \/ BeginToggleComplete
  \/ BeginDeleteTodo
  \/ BeginUpdateTodo
  \/ BeginClearCompleted
  \/ BeginClearAll
  \/ SubscribeBetweenCalls
  \/ PersistItems
  \/ PersistNextId
  \/ PersistCompletedTotal
  \/ Notify
  \/ ReturnTrue

SpecCommit == InitCommit /\ [][NextCommit]_vars

\* ------------------------------------------------------------------ TodoApp
\* The detail.id of an event: a number, or missing.
NumId(n) == [type |-> "number", n |-> n]
NoId == [type |-> "undefined", n |-> 0]
EventIds == {NumId(n) : n \in IdInputs} \cup {NoId}

\* The detail.text of the events the form and the items send.
EventTexts == {Str(<<>>), Str(<<" ", "\t">>), Str(<<" ", "b", " ", "c", "\t">>), NotAString}

\* What window.confirm does: answers yes, answers no, or throws.
ConfirmOutcomes == {"yes", "no", "throws"}

\* Mutant: a throwing prompt counts as a yes.
confirmAction_ThrowIsYes(outcome) == outcome # "no"

\* confirmAction: a throwing prompt counts as a no.
confirmAction(outcome) == outcome = "yes"

\* The controller's timer state, threaded through the helper methods.
TimerState ==
  [map |-> autoClearTimers, pending |-> pendingDeletionIds, armed |-> armed, cleared |-> {}]

\* The handle setTimeout returns: a positive number no armed timer and no
\* entry of the map holds.
setTimeoutHandle(c) ==
  LET used == {t.handle : t \in c.armed} \cup {c.map[k] : k \in DOMAIN c.map}
  IN CHOOSE h \in 1..(Cardinality(used) + 1) :
       h \notin used /\ \A g \in 1..(h - 1) : g \in used

\* Map.prototype.delete / set
mapDelete(m, id) == [k \in DOMAIN m \ {id} |-> m[k]]
mapSet(m, id, value) == [k \in DOMAIN m \cup {id} |-> IF k = id THEN value ELSE m[k]]

\* Mutant: the id is not added to the pending set.
markPendingDeletion_MarksNothing(c, id) == c

markPendingDeletion(c, id) == [c EXCEPT !.pending = c.pending \cup {id}]

unmarkPendingDeletion(c, id) == [c EXCEPT !.pending = c.pending \ {id}]

\* Mutant: the entry is dropped from the map without clearTimeout.
cancelAutoClear_NoClearTimeout(c, id) ==
  LET cleared ==
        IF id \in DOMAIN c.map
        THEN [c EXCEPT !.map = mapDelete(c.map, id)]
        ELSE c
  IN unmarkPendingDeletion(cleared, id)

\* Mutant: cancelling one id clears every timer of the map.
cancelAutoClear_CancelsAll(c, id) ==
  [c EXCEPT !.armed = {t \in c.armed : \A k \in DOMAIN c.map : t.handle # c.map[k]},
            !.cleared = c.cleared \cup {t \in c.armed : \E k \in DOMAIN c.map : t.handle = c.map[k]},
            !.map = [k \in {} |-> 0],
            !.pending = {}]

cancelAutoClear(c, id) ==
  LET cleared ==
        IF id \in DOMAIN c.map
        THEN [c EXCEPT !.armed = {t \in c.armed : t.handle # c.map[id]},
                       !.cleared = c.cleared \cup {t \in c.armed : t.handle = c.map[id]},
                       !.map = mapDelete(c.map, id)]
        ELSE c
  IN unmarkPendingDeletion(cleared, id)

\* Mutant: a timer is armed without cancelling the one the id already has.
scheduleAutoClear_NoCancel(c, id) ==
  LET marked == markPendingDeletion(c, id)
      timerId == setTimeoutHandle(marked)
  IN [marked EXCEPT !.armed = marked.armed \cup {[handle |-> timerId, id |-> id]},
                    !.map = mapSet(marked.map, id, timerId)]

scheduleAutoClear(c, id) ==
  LET marked == markPendingDeletion(cancelAutoClear(c, id), id)
      timerId == setTimeoutHandle(marked)
  IN [marked EXCEPT !.armed = marked.armed \cup {[handle |-> timerId, id |-> id]},
                    !.map = mapSet(marked.map, id, timerId)]

cancelAllAutoClear(c) ==
  [c EXCEPT !.armed = {t \in c.armed : \A k \in DOMAIN c.map : t.handle # c.map[k]},
            !.cleared = c.cleared \cup {t \in c.armed : \E k \in DOMAIN c.map : t.handle = c.map[k]},
            !.map = [k \in {} |-> 0],
            !.pending = {}]

\* The controller's timer state becomes c.
setTimerState(c) ==
  /\ autoClearTimers' = c.map
  /\ pendingDeletionIds' = c.pending
  /\ armed' = c.armed
  /\ clearedTimers' = c.cleared

\* A handler or call that neither arms nor clears a timer.
timersUntouched ==
  /\ UNCHANGED <<autoClearTimers, pendingDeletionIds, armed>>
  /\ clearedTimers' = {}

\* getTodoFromModel(id), read after the store call: whether the item is there
\* and completed (todo?.completed).
completedInModel(items, id) == \E i \in DOMAIN items : items[i].id = id /\ items[i].completed

\* The subscriber callback of the constructor: this.todos = [...this.model.todos].
appListenerRuns ==
  appTodos' = IF notified'[appListener] > 0 THEN todos' ELSE appTodos

\* A handler that returns before calling the store.
noStoreCall == UNCHANGED <<storeVars, backing, ret, notified, lastCall, histVars, appTodos, pc>>

handleAddTodo(text) ==
  /\ lastHandler' = "handleAddTodo"
  /\ timersUntouched
  /\ IF text.type = "string" /\ text.chars # <<>>
     THEN addTodo(text) /\ History("addTodo") /\ appListenerRuns
     ELSE noStoreCall

\* Mutant: the handler goes on to the timers although toggleComplete returned false.
handleToggleTodo_IgnoresResult(e) ==
  /\ lastHandler' = "handleToggleTodo"
  /\ IF e.type # "number"
     THEN noStoreCall /\ timersUntouched
     ELSE /\ toggleComplete(e.n) /\ History("toggleComplete") /\ appListenerRuns
          /\ IF completedInModel(todos', e.n)
             THEN setTimerState(scheduleAutoClear(TimerState, e.n))
             ELSE setTimerState(cancelAutoClear(TimerState, e.n))

handleToggleTodo(e) ==
  /\ lastHandler' = "handleToggleTodo"
  /\ IF e.type # "number"
     THEN noStoreCall /\ timersUntouched
     ELSE /\ toggleComplete(e.n) /\ History("toggleComplete") /\ appListenerRuns
          /\ IF ~ret'
             THEN timersUntouched
             ELSE IF completedInModel(todos', e.n)
                  THEN setTimerState(scheduleAutoClear(TimerState, e.n))
                  ELSE setTimerState(cancelAutoClear(TimerState, e.n))

\* Mutant: the item is deleted without cancelling its timer.
handleDeleteTodo_NoCancel(e, outcome) ==
  /\ lastHandler' = "handleDeleteTodo"
  /\ IF e.type = "number" /\ confirmAction(outcome)
     THEN /\ timersUntouched
          /\ deleteTodo(e.n) /\ History("deleteTodo") /\ appListenerRuns
     ELSE noStoreCall /\ timersUntouched

handleDeleteTodo(e, outcome) ==
  /\ lastHandler' = "handleDeleteTodo"
  /\ IF e.type = "number" /\ confirmAction(outcome)
     THEN /\ setTimerState(cancelAutoClear(TimerState, e.n))
          /\ deleteTodo(e.n) /\ History("deleteTodo") /\ appListenerRuns
     ELSE noStoreCall /\ timersUntouched

handleUpdateTodo(e, text) ==
  /\ lastHandler' = "handleUpdateTodo"
  /\ timersUntouched
  /\ IF e.type = "number"
     THEN updateTodo(e.n, text) /\ History("updateTodo") /\ appListenerRuns
     ELSE noStoreCall

\* Mutant: the list is cleared without cancelling the timers.
handleClearAll_NoCancelAll(outcome) ==
  LET hasTodos == Len(appTodos) > 0
      hasCompleted == completedCount > 0
  IN /\ lastHandler' = "handleClearAll"
     /\ IF (hasTodos \/ hasCompleted) /\ confirmAction(outcome)
        THEN /\ timersUntouched
             /\ clearAll /\ History("clearAll") /\ appListenerRuns
        ELSE noStoreCall /\ timersUntouched

handleClearAll(outcome) ==
  LET hasTodos == Len(appTodos) > 0
      hasCompleted == completedCount > 0
  IN /\ lastHandler' = "handleClearAll"
     /\ IF (hasTodos \/ hasCompleted) /\ confirmAction(outcome)
        THEN /\ setTimerState(cancelAllAutoClear(TimerState))
             /\ clearAll /\ History("clearAll") /\ appListenerRuns
        ELSE noStoreCall /\ timersUntouched

\* Mutant: the callback only clears the bookkeeping and deletes nothing.
autoClearCallback_DeletesNothing(t) ==
  /\ lastHandler' = "autoClearCallback"
  /\ noStoreCall
  /\ setTimerState(unmarkPendingDeletion(
        [TimerState EXCEPT !.armed = armed \ {t}, !.map = mapDelete(autoClearTimers, t.id)],
        t.id))

\* Mutant: the callback deletes the item whether or not it is completed.
autoClearCallback_IgnoresCompleted(t) ==
  /\ lastHandler' = "autoClearCallback"
  /\ deleteTodo(t.id) /\ History("deleteTodo") /\ appListenerRuns
  /\ setTimerState(unmarkPendingDeletion(
        [TimerState EXCEPT !.armed = armed \ {t}, !.map = mapDelete(autoClearTimers, t.id)],
        t.id))

\* The callback scheduleAutoClear hands to setTimeout, run for the armed timer t.
autoClearCallback(t) ==
  /\ lastHandler' = "autoClearCallback"
  /\ IF completedInModel(todos, t.id)
     THEN deleteTodo(t.id) /\ History("deleteTodo") /\ appListenerRuns
     ELSE noStoreCall
  /\ setTimerState(unmarkPendingDeletion(
        [TimerState EXCEPT !.armed = armed \ {t}, !.map = mapDelete(autoClearTimers, t.id)],
        t.id))

\* TodoApp's constructor: a new StorageService and TodoModel over the same
\* backend, no timers, and the controller's callback subscribed. Run again when
\* the page is loaded again: the timers of the page before are gone with it.
appConstructor ==
  /\ todos' = constructor(backing).todos
  /\ nextId' = constructor(backing).nextId
  /\ completedTotal' = constructor(backing).completedTotal
  /\ appTodos' = constructor(backing).todos
  /\ listeners' = {appListener}
  /\ unsubscribers' = <<appListener>>
  /\ unsubscribed' = {}
  /\ unsubscribeCalled' = {}
  /\ autoClearTimers' = [k \in {} |-> 0]
  /\ pendingDeletionIds' = {}
  /\ armed' = {}
  /\ clearedTimers' = {}
  /\ lastHandler' = "constructor"
  /\ lastCall' = "constructor"
  /\ ret' = FALSE
  /\ notified' = NoCalls
  /\ UNCHANGED <<storage, serviceCall, backing, histVars, pc, commitVars>>

InitApp ==
  /\ storage = "ok"
  /\ backing = [k \in BackingKeys |-> Null]
  /\ serviceCall = NoServiceCall
  /\ todos = constructor(backing).todos
  /\ nextId = constructor(backing).nextId
  /\ completedTotal = constructor(backing).completedTotal
  /\ appTodos = constructor(backing).todos
  /\ listeners = {appListener}
  /\ unsubscribers = <<appListener>>
  /\ unsubscribed = {}
  /\ unsubscribeCalled = {}
  /\ autoClearTimers = [k \in {} |-> 0]
  /\ pendingDeletionIds = {}
  /\ armed = {}
  /\ clearedTimers = {}
  /\ lastHandler = "constructor"
  /\ lastCall = "constructor"
  /\ ret = FALSE
  /\ notified = NoCalls
  /\ stepwise = FALSE
  /\ pc = "idle"
  /\ preCall = [todos |-> todos, nextId |-> nextId, completedTotal |-> completedTotal]
  /\ issuedEpoch = <<>>
  /\ issuedEver = {}
  /\ everCompleted = {}
  /\ mutated = FALSE
  /\ dirty = FALSE

appFrame == UNCHANGED <<subsVars, storage, serviceCall, commitVars>>

HandleAddTodo ==
  \E text \in EventTexts :
    /\ trimmedText(text) # <<>> => nextId <= MaxId
    /\ handleAddTodo(text)
    /\ appFrame

HandleToggleTodo == \E e \in EventIds : handleToggleTodo(e) /\ appFrame

HandleDeleteTodo ==
  \E e \in EventIds, outcome \in ConfirmOutcomes : handleDeleteTodo(e, outcome) /\ appFrame

HandleUpdateTodo ==
  \E e \in EventIds, text \in EventTexts : handleUpdateTodo(e, text) /\ appFrame

HandleClearAll == \E outcome \in ConfirmOutcomes : handleClearAll(outcome) /\ appFrame

TimerFires(t) == t \in armed /\ autoClearCallback(t) /\ appFrame

AutoClearFires == \E t \in armed : TimerFires(t)

NextApp ==
  \/ HandleAddTodo
  \/ HandleToggleTodo
  \/ HandleDeleteTodo
  \/ HandleUpdateTodo
  \/ HandleClearAll
  \/ AutoClearFires
  \/ appConstructor

SpecApp == InitApp /\ [][NextApp]_vars

\* One session of the page: the handlers and the timers, without a reload.
\* An armed timer fires once its delay has elapsed unless it is cleared first.
Timers == [handle : 1..MaxId, id : IdInputs]

NextAppSession ==
  \/ HandleAddTodo
  \/ HandleToggleTodo
  \/ HandleDeleteTodo
  \/ HandleUpdateTodo
  \/ HandleClearAll
  \/ AutoClearFires

SpecAppFair ==
  /\ InitApp
  /\ [][NextAppSession]_vars
  /\ \A t \in Timers : WF_vars(TimerFires(t))

\* A method of the store called on the controller's public `model` field by
\* code other than the handlers: the controller's subscriber runs, its timers
\* are not touched.
directFrame ==
  /\ lastHandler' = "direct"
  /\ appListenerRuns
  /\ timersUntouched
  /\ appFrame

DirectToggleComplete ==
  \E id \in IdInputs : toggleComplete(id) /\ History("toggleComplete") /\ directFrame

DirectDeleteTodo ==
  \E id \in IdInputs : deleteTodo(id) /\ History("deleteTodo") /\ directFrame

DirectClearCompleted == clearCompleted /\ History("clearCompleted") /\ directFrame

NextAppDirect ==
  \/ HandleAddTodo
  \/ HandleToggleTodo
  \/ HandleDeleteTodo
  \/ HandleUpdateTodo
  \/ HandleClearAll
  \/ AutoClearFires
  \/ DirectToggleComplete
  \/ DirectDeleteTodo
  \/ DirectClearCompleted

\* One session of the page in which the store is also called directly.
SpecAppDirect == InitApp /\ [][NextAppDirect]_vars

\* Mutant: the element detaches without calling its unsubscribe closure.
disconnectedCallback_NoUnsubscribe ==
  /\ lastHandler' = "disconnectedCallback"
  /\ UNCHANGED subsVars
  /\ setTimerState(cancelAllAutoClear(TimerState))
  /\ noStoreCall
  /\ UNCHANGED <<storage, serviceCall, commitVars>>

\* disconnectedCallback: this.unsubscribe is the first closure the store
\* handed out (to the constructor); then every timer is cancelled.
disconnectedCallback ==
  /\ lastHandler' = "disconnectedCallback"
  /\ unsubscribe(1)
  /\ unsubscribed' = unsubscribed \cup {unsubscribers[1]}
  /\ unsubscribeCalled' = unsubscribeCalled \cup {1}
  /\ setTimerState(cancelAllAutoClear(TimerState))
  /\ noStoreCall
  /\ UNCHANGED <<storage, serviceCall, commitVars>>

\* One session of the page in which the element may be detached. Its event
\* handlers are bound to elements of its own shadow tree, so they run only
\* while it is attached; the store lives on and other code keeps calling it.
NextAppDisconnect ==
  \/ appListener \in listeners /\ HandleAddTodo
  \/ appListener \in listeners /\ HandleToggleTodo
  \/ appListener \in listeners /\ HandleDeleteTodo
  \/ appListener \in listeners /\ HandleClearAll
  \/ AutoClearFires
  \/ DirectToggleComplete
  \/ DirectDeleteTodo
  \/ disconnectedCallback

SpecAppDisconnect == InitApp /\ [][NextAppDisconnect]_vars

\* ------------------------------------------- the snapshot found at start
\* An item as a snapshot may hold it.
storedTodo == [id |-> 1, text |-> <<"a">>, completed |-> TRUE, wasCounted |-> TRUE]

\* The texts other code of the origin, an older version of the application or
\* the user may leave under a key: none, '', 'not json', 0, 2, "7a", "a",
\* true, null and [{...}].
SnapshotTexts ==
  { Null, EmptyText, NotJson } \cup
  { JSONstringify(v) : v \in { NumVal(0), NumVal(2), Str(<<"7", "a">>), Str(<<"a">>),
                               BoolVal(TRUE), NullVal, ArrayVal(<<storedTodo>>) } }

\* Whether `new TodoModel(service)` raises: it calls load three times, then
\* Array.isArray, map over item objects and Number.parseInt.
constructorRaises(b) ==
  \E key \in {KeyItems, KeyNextId, KeyCompletedTotal} : loadRaises(b, key)

\* backing.setItem(key, text) or removeItem(key) by code other than the service.
ExternalSetItem(k, text) ==
  /\ storage = "ok"
  /\ backing' = [backing EXCEPT ![k] = text]
  /\ lastCall' = "setItem"
  /\ UNCHANGED <<storeVars, subsVars, storage, serviceCall, ret, notified,
                 histVars, appVars, pc, commitVars>>

\* new TodoModel(service) over the backend as it is.
Construct ==
  /\ IF constructorRaises(backing)
     THEN lastCall' = "constructor raised" /\ UNCHANGED storeVars
     ELSE /\ lastCall' = "constructor"
          /\ todos' = constructor(backing).todos
          /\ nextId' = constructor(backing).nextId
          /\ completedTotal' = constructor(backing).completedTotal
  /\ listeners' = {}
  /\ unsubscribers' = <<>>
  /\ unsubscribed' = {}
  /\ unsubscribeCalled' = {}
  /\ ret' = FALSE
  /\ notified' = NoCalls
  /\ issuedEpoch' = <<>>
  /\ issuedEver' = {}
  /\ everCompleted' = {}
  /\ mutated' = FALSE
  /\ dirty' = FALSE
  /\ preCall' = [todos |-> todos', nextId |-> nextId', completedTotal |-> completedTotal']
  /\ UNCHANGED <<storage, serviceCall, backing, appVars, pc, stepwise>>

\* Everything of the initial state but the backend.
initialRest ==
  /\ serviceCall = NoServiceCall
  /\ listeners = {}
  /\ unsubscribers = <<>>
  /\ unsubscribed = {}
  /\ unsubscribeCalled = {}
  /\ ret = FALSE
  /\ notified = NoCalls
  /\ lastCall = "constructor"
  /\ issuedEpoch = <<>>
  /\ issuedEver = {}
  /\ everCompleted = {}
  /\ mutated = FALSE
  /\ dirty = FALSE
  /\ appTodos = <<>>
  /\ autoClearTimers = <<>>
  /\ pendingDeletionIds = {}
  /\ armed = {}
  /\ clearedTimers = {}
  /\ lastHandler = "none"
  /\ stepwise = FALSE
  /\ pc = "idle"
  /\ preCall = [todos |-> todos, nextId |-> nextId, completedTotal |-> completedTotal]

InitSnapshot ==
  /\ storage \in {"ok", "absent"}
  /\ backing = [k \in BackingKeys |-> Null]
  /\ todos = constructor(backing).todos
  /\ nextId = constructor(backing).nextId
  /\ completedTotal = constructor(backing).completedTotal
  /\ initialRest

SnapshotSetItem == \E k \in BackingKeys, text \in SnapshotTexts : ExternalSetItem(k, text)

NextSnapshot ==
  \/ SnapshotSetItem
  \/ Construct

\* The store constructed over whatever the backend holds.
SpecSnapshot == InitSnapshot /\ [][NextSnapshot]_vars

\* ------------------------------------- a backend that fails now and then
\* The store over a backend whose setItem throws on some calls and not on
\* others: each of the three saves of a commit succeeds or fails on its own.
\* The page is loaded again at any moment, over whatever the backend holds.
InitPartial ==
  /\ storage = "failing"
  /\ backing = [k \in BackingKeys |-> Null]
  /\ todos = constructor(backing).todos
  /\ nextId = constructor(backing).nextId
  /\ completedTotal = constructor(backing).completedTotal
  /\ initialRest

\* A reload can set the id counter back while the list is kept, so the list
\* is capped apart from the id counter.
PartialAddTodo ==
  /\ nextId <= MaxId
  /\ Len(todos) < MaxPartialLen
  /\ AddTodoStep(Str(<<"a">>))

NextPartial ==
  \/ PartialAddTodo
  \/ CallDeleteTodo
  \/ Construct

SpecPartial == InitPartial /\ [][NextPartial]_vars

\* ------------------------------------------------- StorageService, directly
KeyOther == <<"o", "t", "h", "e", "r">>
KeyTodosBackup == <<"t", "o", "d", "o", "s", "B", "a", "c", "k", "u", "p">>

\* The suffixes handed to save, load and remove; the keys of the backend.
ServiceSuffixes == {KeyItems, KeyNextId}
ForeignKeys == {KeyOther, KeyTodosBackup}
StorageKeys == {buildKey(suffix) : suffix \in ServiceSuffixes} \cup ForeignKeys

\* JSON-compatible values handed to save, and defaults handed to load.
SaveValues ==
  { BoolVal(FALSE), NumVal(0), NumVal(7), Str(<<>>),
    ArrayVal(<<>>), ArrayVal(<<storedTodo>>), ObjVal(storedTodo) }
DefaultValues == { Str(<<"f">>), NumVal(1) }

\* The texts other code leaves under a key.
ForeignTexts == { Null, EmptyText, NotJson }

serviceFrame ==
  UNCHANGED <<storeVars, subsVars, storage, ret, notified,
              histVars, appVars, pc, commitVars>>

ServiceSave(key, data) ==
  \E throws \in SetItemThrows :
    /\ backing' = save(backing, key, data, throws)
    /\ serviceCall' = [op |-> "save", key |-> key, data |-> data,
                       raised |-> saveRaises(throws)]
    /\ lastCall' = "save"
    /\ serviceFrame

ServiceLoad(key, defaultValue) ==
  /\ serviceCall' = [op |-> "load", key |-> key, defaultValue |-> defaultValue,
                     raised |-> loadRaises(backing, key),
                     value |-> load(backing, key, defaultValue)]
  /\ backing' = backing
  /\ lastCall' = "load"
  /\ serviceFrame

ServiceRemove(key) ==
  /\ backing' = remove(backing, key)
  /\ serviceCall' = [op |-> "remove", key |-> key]
  /\ lastCall' = "remove"
  /\ serviceFrame

ServiceClear ==
  /\ backing' = clear(backing)
  /\ serviceCall' = [op |-> "clear"]
  /\ lastCall' = "clear"
  /\ serviceFrame

CallSave == \E key \in ServiceSuffixes, data \in SaveValues : ServiceSave(key, data)
CallLoad == \E key \in ServiceSuffixes, d \in DefaultValues : ServiceLoad(key, d)
CallRemove == \E key \in ServiceSuffixes : ServiceRemove(key)
ForeignSetItem == \E k \in StorageKeys, text \in ForeignTexts : ExternalSetItem(k, text)

InitStorage ==
  /\ storage \in {"ok", "absent"}
  /\ backing = [k \in StorageKeys |-> Null]
  /\ todos = <<>>
  /\ nextId = 1
  /\ completedTotal = 0
  /\ initialRest

NextStorage ==
  \/ CallSave
  \/ CallLoad
  \/ CallRemove
  \/ ServiceClear
  \/ ForeignSetItem

\* The service used directly, next to other code using the same backend.
SpecStorage == InitStorage /\ [][NextStorage]_vars

\* ------------------------------------------------------------------- claims
Range(s) == {s[i] : i \in DOMAIN s}

PairwiseDistinct(s) == \A i, j \in DOMAIN s : i # j => s[i] # s[j]

\* The items of the list that are completed and counted.
countedCompleted == {i \in DOMAIN todos : todos[i].completed /\ todos[i].wasCounted}

\* C1: the ids given by the successful addTodo calls since the latest clearAll
\* are pairwise distinct and each is exactly 1 greater than the one before it,
\* whatever toggleComplete, updateTodo, deleteTodo, clearCompleted and rejected
\* addTodo calls came in between.
C1_IdsIncreaseByOne ==
  /\ PairwiseDistinct(issuedEpoch)
  /\ \A i \in DOMAIN issuedEpoch : i > 1 => issuedEpoch[i] = issuedEpoch[i - 1] + 1

\* A second id was given after a completion and a deletion.
C1_Witness ==
  /\ lastCall = "addTodo" /\ ret
  /\ Len(issuedEpoch) = 2
  /\ Len(todos) < 2
  /\ everCompleted # {}

\* C2 as stated: over the lifetime of the store, clearAll included, no id is
\* given to two items and nextId is greater than every id ever given.
C2_Original ==
  /\ [](\A id \in issuedEver : nextId > id)
  /\ [][\A text \in TextInputs :
          (AddTodoStep(text) /\ ret') => todos'[Len(todos')].id \notin issuedEver]_vars

\* C2 as amended: since construction or the latest successful clearAll, no id
\* is given to two items and nextId is greater than every id given since then,
\* deleted items included.
C2_UniqueSinceClearAll ==
  /\ PairwiseDistinct(issuedEpoch)
  /\ \A id \in Range(issuedEpoch) : nextId > id

\* After a clearAll, ids were given again and one of the new items is gone.
C2_Witness ==
  /\ issuedEpoch # <<>>
  /\ Range(issuedEpoch) # issuedEver
  /\ Len(todos) < Len(issuedEpoch)

\* C3: completedTotal is the number of distinct items completed at least once
\* (since the latest clearAll, which restarts the count with the list): the first
\* completion of an item adds 1, every later toggle of it adds 0.
C3_CountsDistinctItems == completedTotal = Cardinality(everCompleted)

\* An item was completed, then toggled back to incomplete.
C3_Witness ==
  /\ lastCall = "toggleComplete" /\ ret
  /\ \E i \in DOMAIN todos : ~todos[i].completed /\ todos[i].id \in everCompleted
  /\ completedTotal = 1

\* C4: completedTotal decreases only in clearAll; deleteTodo and clearCompleted
\* leave it exactly as it was, also when they remove counted items.
C4_OnlyClearAllDecreases ==
  [][/\ completedTotal' < completedTotal => ClearAllStep
     /\ lastCall' = "deleteTodo" =>
          ((\E id \in IdInputs : DeleteTodoStep(id)) => completedTotal' = completedTotal)
     /\ lastCall' = "clearCompleted" =>
          (ClearCompletedStep => completedTotal' = completedTotal)]_vars

\* deleteTodo has just removed an item that was completed and counted.
C4_Witness ==
  /\ lastCall = "deleteTodo" /\ ret
  /\ completedTotal > 0
  /\ \E id \in everCompleted : \A i \in DOMAIN todos : todos[i].id # id

\* C5: completedCount is the lifetime counter, and it is at least the number of
\* completed and counted items in the list.
C5_CompletedCountIsLifetime ==
  /\ completedCount = completedTotal
  /\ completedTotal >= Cardinality(countedCompleted)

\* clearCompleted has removed a counted item and another counted item is
\* active again: completedCount is 2 and the list holds no completed item.
C5_Witness ==
  /\ lastCall = "clearCompleted" /\ ret
  /\ completedCount = 2
  /\ countedCompleted = {}
  /\ todos # <<>>

\* C6 as stated: clearAll returns false on a store no mutation has changed,
\* and true on a store that some successful mutation, of any kind, has changed.
C6_Original == [][lastCall' = "clearAll" => (ClearAllStep => ret' = mutated)]_vars

\* C6 as amended: clearAll returns true exactly when a successful mutation
\* other than clearAll happened since construction or the latest successful
\* clearAll.
C6_TrueIffChangedSinceClearAll ==
  [][lastCall' = "clearAll" => (ClearAllStep => ret' = dirty)]_vars

\* clearAll has returned false on a store that was mutated before.
C6_Witness ==
  /\ lastCall = "clearAll" /\ ~ret
  /\ mutated /\ ~dirty

\* C7: a clearAll that returns true leaves an empty list, nextId = 1 and
\* completedTotal = 0, so both counts are 0; the next id given is 1.
C7_ClearAllResets ==
  /\ (lastCall = "clearAll" /\ ret) =>
       /\ todos = <<>> /\ nextId = 1 /\ completedTotal = 0
       /\ activeCount = 0 /\ completedCount = 0
  /\ issuedEpoch # <<>> => issuedEpoch[1] = 1

\* The first addTodo after a successful clearAll has just run.
C7_Witness ==
  /\ lastCall = "addTodo" /\ ret
  /\ Len(issuedEpoch) = 1
  /\ 2 \in issuedEver

\* Whether trimmed is raw without its leading and trailing white space.
IsTrimOf(raw, trimmed) ==
  /\ trimmed # <<>> => trimmed[1] \notin WhiteSpace /\ trimmed[Len(trimmed)] \notin WhiteSpace
  /\ \E k \in 0..Len(raw) :
       /\ k + Len(trimmed) <= Len(raw)
       /\ \A i \in 1..k : raw[i] \in WhiteSpace
       /\ \A i \in 1..Len(trimmed) : raw[k + i] = trimmed[i]
       /\ \A i \in (k + Len(trimmed) + 1)..Len(raw) : raw[i] \in WhiteSpace

\* Whether a text is not a string, or is empty once trimmed.
IsBlank(text) == text.type # "string" \/ IsTrimOf(text.chars, <<>>)

\* C8: addTodo with a text that is not a string, or is empty or white space
\* only, returns false, changes neither the store nor the persisted snapshot
\* and invokes no subscriber.
C8_BlankAddChangesNothing ==
  [][lastCall' = "addTodo" =>
       \A text \in TextInputs :
         (IsBlank(text) /\ AddTodoStep(text)) =>
           /\ ret' = FALSE
           /\ UNCHANGED <<todos, nextId, completedTotal, backing>>
           /\ notified' = NoCalls]_vars

\* A blank addTodo was rejected on a store that holds items and has a subscriber.
C8_Witness ==
  /\ lastCall = "addTodo" /\ ~ret
  /\ todos # <<>> /\ listeners # {}
  /\ notified = NoCalls

\* C9: a successful addTodo appends one item with id = the nextId before the
\* call, the trimmed text, completed = false and wasCounted = false, adds 1 to
\* nextId and leaves the other items, their order and completedTotal as they were.
C9_AddAppendsOneItem ==
  [][lastCall' = "addTodo" =>
       \A text \in TextInputs :
         (~IsBlank(text) /\ AddTodoStep(text)) =>
           /\ ret' = TRUE
           /\ Len(todos') = Len(todos) + 1
           /\ SubSeq(todos', 1, Len(todos)) = todos
           /\ todos'[Len(todos')].id = nextId
           /\ IsTrimOf(text.chars, todos'[Len(todos')].text)
           /\ todos'[Len(todos')].completed = FALSE
           /\ todos'[Len(todos')].wasCounted = FALSE
           /\ nextId' = nextId + 1
           /\ completedTotal' = completedTotal]_vars

\* A padded text was added, trimmed, behind a completed item.
C9_Witness ==
  /\ lastCall = "addTodo" /\ ret
  /\ Len(todos) = 2
  /\ todos[2].text = <<"b", " ", "c">>
  /\ todos[1].completed
  /\ completedTotal = 1

\* Whether updateTodo(id, newText) has nothing to do.
UpdateIsNoOp(id, newText) ==
  \/ IsBlank(newText)
  \/ \A i \in DOMAIN todos : todos[i].id # id
  \/ \E i \in DOMAIN todos : todos[i].id = id /\ IsTrimOf(newText.chars, todos[i].text)

\* C10: updateTodo returns false, changes neither the store nor the persisted
\* snapshot and invokes no subscriber when the trimmed text is empty, when no
\* item has the id, and when the trimmed text is the item's current text.
C10_UpdateNoOps ==
  [][lastCall' = "updateTodo" =>
       \A id \in IdInputs, text \in TextInputs :
         (UpdateIsNoOp(id, text) /\ UpdateTodoStep(id, text)) =>
           /\ ret' = FALSE
           /\ UNCHANGED <<todos, nextId, completedTotal, backing>>
           /\ notified' = NoCalls]_vars

\* An updateTodo was a no-op on a store that holds items and has a subscriber.
C10_Witness ==
  /\ lastCall = "updateTodo" /\ ~ret
  /\ Len(todos) = 2 /\ listeners # {}
  /\ \E i \in DOMAIN todos : todos[i].text = <<"b", " ", "c">>

\* C11: updateTodo with the id of an item and a text that is non-empty once
\* trimmed and differs from the item's text returns true, stores the trimmed
\* text on that item, invokes each subscriber once and leaves the item's id,
\* completed, wasCounted and position, every other item, nextId and
\* completedTotal as they were.
C11_UpdateStoresTrimmedText ==
  [][lastCall' = "updateTodo" =>
       \A id \in IdInputs, text \in TextInputs :
         (~UpdateIsNoOp(id, text) /\ UpdateTodoStep(id, text)) =>
           /\ ret' = TRUE
           /\ Len(todos') = Len(todos)
           /\ \A i \in DOMAIN todos :
                IF todos[i].id = id
                THEN /\ IsTrimOf(text.chars, todos'[i].text)
                     /\ todos'[i].id = todos[i].id
                     /\ todos'[i].completed = todos[i].completed
                     /\ todos'[i].wasCounted = todos[i].wasCounted
                ELSE todos'[i] = todos[i]
           /\ nextId' = nextId
           /\ completedTotal' = completedTotal
           /\ \A c \in Callbacks : notified'[c] = IF c \in listeners THEN 1 ELSE 0]_vars

\* The padded text was stored, trimmed, on the first of two items, which is
\* completed, and the subscriber was invoked once.
C11_Witness ==
  /\ lastCall = "updateTodo" /\ ret
  /\ Len(todos) = 2
  /\ todos[1].text = <<"b", " ", "c">> /\ todos[1].completed /\ todos[1].wasCounted
  /\ todos[2].text = <<"a">>
  /\ listeners # {} /\ \A c \in listeners : notified[c] = 1

\* The calls that go through #commit.
Mutations ==
  {"addTodo", "toggleComplete", "deleteTodo", "updateTodo", "clearCompleted", "clearAll"}

\* The callbacks handed to subscribe whose unsubscribe closure was not called
\* since they were last subscribed.
subscribedNow == {unsubscribers[i] : i \in DOMAIN unsubscribers} \ unsubscribed

\* C12: a mutation that returns true invokes each currently subscribed
\* callback exactly once and no other callback, a mutation that returns false
\* invokes none, and a callback whose unsubscribe closure has been called (and
\* which was not handed to subscribe again) is invoked by no later mutation.
C12_NotifiesSubscribersOnce ==
  lastCall \in Mutations =>
    /\ ret => \A c \in Callbacks : notified[c] = IF c \in subscribedNow THEN 1 ELSE 0
    /\ ~ret => \A c \in Callbacks : notified[c] = 0
    /\ \A c \in unsubscribed : notified[c] = 0

\* A mutation has returned true after the only subscriber was unsubscribed.
C12_Witness ==
  /\ lastCall \in Mutations /\ ret
  /\ unsubscribed # {}
  /\ todos # <<>>

\* C13: each subscribe call makes a subscription of its own, also when the
\* same callback is passed twice: calling the unsubscribe closure of one call
\* ends only that subscription, so on every mutation that returns true the
\* callback of every subscription whose own closure was not called is invoked once.
C13_Original ==
  (lastCall \in Mutations /\ ret) =>
    \A i \in DOMAIN unsubscribers :
      i \notin unsubscribeCalled => notified[unsubscribers[i]] = 1

\* C14: with a working storage backend, a fresh store constructed from the
\* persisted snapshot has the item sequence, nextId and completedTotal of the
\* running store, after any sequence of mutations.
C14_RoundTrip ==
  storage = "ok" =>
    constructor(backing) =
      [todos |-> todos, nextId |-> nextId, completedTotal |-> completedTotal]

\* The snapshot was rewritten by a deleteTodo that left a completed, counted
\* item with a trimmed text in the list and nextId at 3.
C14_Witness ==
  /\ lastCall = "deleteTodo" /\ ret
  /\ Len(todos) = 1 /\ todos[1].completed /\ todos[1].wasCounted
  /\ todos[1].text = <<"b", " ", "c">>
  /\ nextId = 3 /\ completedTotal = 2
  /\ backing[buildKey(KeyNextId)] = [kind |-> "number", digits |-> <<"3">>]

\* The ids that have an armed timer.
armedIds == {t.id : t \in armed}

\* C15: an item toggled to complete and back to incomplete through the
\* controller before its timer fired stays in the list: in every state an
\* incomplete item has no armed timer, no entry in the timer map and no
\* pending-deletion mark, and a timer callback removes no incomplete item.
C15_UncompleteCancelsAutoClear ==
  /\ [](\A i \in DOMAIN todos :
          ~todos[i].completed =>
            /\ todos[i].id \notin armedIds
            /\ todos[i].id \notin DOMAIN autoClearTimers
            /\ todos[i].id \notin pendingDeletionIds)
  /\ [][lastHandler' = "autoClearCallback" =>
          \A i \in DOMAIN todos :
            ~todos[i].completed => \E j \in DOMAIN todos' : todos'[j] = todos[i]]_vars

\* handleToggleTodo has just put a counted item back to incomplete while the
\* other item is still waiting for its timer.
C15_Witness ==
  /\ lastHandler = "handleToggleTodo" /\ lastCall = "toggleComplete" /\ ret
  /\ Len(todos) = 2
  /\ ~todos[2].completed /\ todos[2].wasCounted
  /\ todos[1].completed /\ todos[1].id \in pendingDeletionIds

\* C16: within a session of the page, an item completed through the
\* controller does not stay completed in the list: unless it is toggled back,
\* deleted or cleared, its timer fires and removes it; the removal by the timer
\* leaves activeCount and completedCount as they were.
C16_CompletedItemIsAutoCleared ==
  /\ \A id \in IdInputs : completedInModel(todos, id) ~> ~completedInModel(todos, id)
  /\ [][lastHandler' = "autoClearCallback" =>
          \A t \in armed :
            (TimerFires(t) /\ completedInModel(todos, t.id)) =>
              /\ ret' = TRUE
              /\ \A j \in DOMAIN todos' : todos'[j].id # t.id
              /\ Len(todos') = Len(todos) - 1
              /\ activeCount' = activeCount
              /\ completedCount' = completedCount]_vars

\* Of two items added, the first was completed and its timer has removed it:
\* one active item is left and completedCount is 1.
C16_Witness ==
  /\ lastHandler = "autoClearCallback" /\ lastCall = "deleteTodo" /\ ret
  /\ Len(todos) = 1 /\ todos[1].id = 2
  /\ activeCount = 1 /\ completedCount = 1
  /\ armed = {} /\ pendingDeletionIds = {}

\* C17: in every state of the controller between two handlers, every item of
\* the store with completed = true has an armed timer, an entry in the timer
\* map and its id in the pending-deletion set, also when the item was completed
\* in the snapshot the controller's store was constructed from.
C17_Original ==
  \A i \in DOMAIN todos :
    todos[i].completed =>
      /\ todos[i].id \in armedIds
      /\ todos[i].id \in DOMAIN autoClearTimers
      /\ todos[i].id \in pendingDeletionIds

\* The position in s of the k-th item, from the front, that is not completed.
KthActive(s, k) ==
  CHOOSE i \in DOMAIN s :
    /\ ~s[i].completed
    /\ Cardinality({j \in 1..(i - 1) : ~s[j].completed}) = k - 1

\* C18: when some item is completed, clearCompleted returns true, invokes each
\* subscriber once and leaves exactly the items that were not completed,
\* unmodified and in the order they had, with nextId (and completedTotal) as they
\* were; when no item is completed it returns false and changes neither the
\* store nor the persisted snapshot, and invokes no subscriber.
C18_ClearCompletedKeepsActive ==
  [][lastCall' = "clearCompleted" =>
       (ClearCompletedStep =>
          IF \E i \in DOMAIN todos : todos[i].completed
          THEN /\ ret' = TRUE
               /\ Len(todos') = activeCount
               /\ \A k \in DOMAIN todos' : todos'[k] = todos[KthActive(todos, k)]
               /\ nextId' = nextId
               /\ completedTotal' = completedTotal
               /\ \A c \in Callbacks : notified'[c] = IF c \in listeners THEN 1 ELSE 0
          ELSE /\ ret' = FALSE
               /\ UNCHANGED <<todos, nextId, completedTotal, backing>>
               /\ notified' = NoCalls)]_vars

\* clearCompleted has removed the completed item from between two active
\* items, one of them counted, and the subscriber was invoked.
C18_Witness ==
  /\ lastCall = "clearCompleted" /\ ret
  /\ Len(todos) = 2
  /\ todos[1].id = 1 /\ todos[2].id = 3
  /\ todos[1].wasCounted /\ ~todos[2].wasCounted
  /\ completedTotal = 2
  /\ listeners # {} /\ \A c \in listeners : notified[c] = 1

\* The store's fields, as the record the constructor and preCall use.
fields == [todos |-> todos, nextId |-> nextId, completedTotal |-> completedTotal]

PersistPositions == {"persist_items", "persist_nextId", "persist_completedTotal"}

\* Each subscribed callback has run once in the call in progress, no other has.
eachNotifiedOnce == \A c \in AllCallbacks : notified[c] = IF c \in listeners THEN 1 ELSE 0

\* C19: in a call that changes the store, the assignments come first, then the
\* three saves, then the callbacks, then the return: while #persist runs the
\* fields already differ from what they were and no callback has run; when the
\* callbacks run, the fields are the new ones and, with a working backend, the
\* persisted snapshot is the one a fresh store would load them from; the call
\* returns true only after every subscriber has run once.
C19_CommitIsOrdered ==
  /\ pc \in PersistPositions => (fields # preCall /\ notified = NoCalls)
  /\ pc = "notify" =>
       /\ fields # preCall
       /\ notified = NoCalls
       /\ storage = "ok" => constructor(backing) = fields
  /\ pc = "return" =>
       /\ eachNotifiedOnce
       /\ storage = "ok" => constructor(backing) = fields
  /\ (pc = "idle" /\ lastCall \in Mutations /\ ret) =>
       /\ eachNotifiedOnce
       /\ storage = "ok" => constructor(backing) = fields

\* The callback of the subscriber is about to run for a toggleComplete that
\* completed the second item, with a working backend.
C19_Witness ==
  /\ pc = "notify" /\ lastCall = "toggleComplete"
  /\ storage = "ok" /\ listeners # {}
  /\ Len(todos) = 2 /\ todos[2].completed /\ ~preCall.todos[2].completed
  /\ backing[buildKey(KeyCompletedTotal)] = [kind |-> "number", digits |-> <<"1">>]

\* The position that follows each save of #persist.
afterSave(position) ==
  IF position = "persist_items" THEN "persist_nextId"
  ELSE IF position = "persist_nextId" THEN "persist_completedTotal"
  ELSE "notify"

\* C20: with a backend whose every setItem throws, or with no backend, no call
\* raises; each save, failed or not, leaves the store's fields alone and goes
\* on to the same next statement, so the callbacks run and the call returns
\* true exactly when it changed the fields, as with a working backend.
C20_FailedSaveBlocksNothing ==
  /\ [](pc # "raised")
  /\ [](storage \in {"full", "absent"} =>
          /\ \A k \in BackingKeys : backing[k] = Null
          /\ (pc = "idle" /\ lastCall \in Mutations) =>
                /\ ret = (fields # preCall)
                /\ ret => eachNotifiedOnce)
  /\ [][(pc \in PersistPositions) =>
          (UNCHANGED <<todos, nextId, completedTotal>> /\ pc' = afterSave(pc))]_vars

\* With a backend that has failed every save so far, a second addTodo has
\* returned true and the subscriber was invoked.
C20_Witness ==
  /\ storage = "full" /\ pc = "idle"
  /\ lastCall = "addTodo" /\ ret
  /\ Len(todos) = 2
  /\ \A k \in BackingKeys : backing[k] = Null
  /\ listeners # {} /\ eachNotifiedOnce

\* --------------------------------------------------------------------- C21
\* What the constructor reads under a key of the snapshot.
snapshotText(suffix) == backing[buildKey(suffix)]

IsDigit(c) == \E d \in DOMAIN DigitChars : DigitChars[d] = c

\* The stored text is the number n, or a JSON string that begins with the
\* decimal digits of n and goes on with no further digit.
StartsWithInteger(text, n) ==
  \/ text.kind = "number" /\ text.digits = digitsOf(n)
  \/ /\ text.kind = "string"
     /\ \E k \in 1..Len(text.chars) :
          /\ SubSeq(text.chars, 1, k) = digitsOf(n)
          /\ (k < Len(text.chars) => ~IsDigit(text.chars[k + 1]))

HoldsInteger(text) == \E n \in 1..9 : StartsWithInteger(text, n)

InNamespace(k) == \E n \in 1..Len(k) : SubSeq(k, 1, n) = storageKey \o <<"_">>

\* C22 as stated: clear removes every key of the service's namespace, and a
\* key that is not of the form <prefix>_<suffix> keeps its value.
C22_Original ==
  [][(lastCall' = "clear") =>
       \A k \in DOMAIN backing :
         /\ (InNamespace(k) => backing'[k] = Null)
         /\ (~InNamespace(k) => backing'[k] = backing[k])]_vars

\* --------------------------------------------------------------------- C23
\* A stored text JSON.parse rejects.
FailsToDeserialize(text) == text \in {EmptyText, NotJson}

\* C23: load raises nothing; it returns the default when there is no backend,
\* when the key is absent and when the stored text does not deserialize, and
\* otherwise the value whose serialization the stored text is.
C23_LoadDefaultsOrValue ==
  [][(lastCall' = "load") =>
       \A key \in ServiceSuffixes, d \in DefaultValues :
         ServiceLoad(key, d) =>
           LET text == backing[storageKey \o <<"_">> \o key]
               value == serviceCall'.value
           IN /\ ~serviceCall'.raised
              /\ IF storage = "absent" \/ text = Null \/ FailsToDeserialize(text)
                 THEN value = d
                 ELSE \E v \in SaveValues : text = JSONstringify(v) /\ value = v]_vars

\* load('items', d) returned d over a stored text that is not JSON.
C23_LoadDefaultsOrValue_Witness ==
  /\ lastCall = "load"
  /\ storage = "ok"
  /\ serviceCall.key = KeyItems
  /\ backing[buildKey(KeyItems)] = NotJson
  /\ serviceCall.value = serviceCall.defaultValue
  /\ ~serviceCall.raised

\* --------------------------------------------------------------------- C24
\* C24: with a backend, save(key, v) leaves the serialization of v under
\* <prefix>_<key> and touches no other key, and a load(key, d) that follows
\* returns v whatever d is.
C24_SaveLoadRoundTrip ==
  [][(storage = "ok") =>
       /\ (lastCall' = "save") =>
            \A key \in ServiceSuffixes, v \in SaveValues :
              ServiceSave(key, v) =>
                \A k \in DOMAIN backing :
                  backing'[k] = IF k = storageKey \o <<"_">> \o key
                                THEN JSONstringify(v) ELSE backing[k]
       /\ (lastCall = "save" /\ lastCall' = "load" /\ serviceCall'.key = serviceCall.key) =>
            serviceCall'.value = serviceCall.data]_vars

\* save('nextId', 0) was followed by load('nextId', 1), which returned 0.
C24_SaveLoadRoundTrip_Witness ==
  /\ lastCall = "load"
  /\ serviceCall.key = KeyNextId
  /\ serviceCall.defaultValue = NumVal(1)
  /\ serviceCall.value = NumVal(0)
  /\ backing[buildKey(KeyNextId)] = [kind |-> "number", digits |-> <<"0">>]

\* --------------------------------------------------------------------- C25
\* The list without the item of the given id.
WithoutId(items, id) == SelectSeq(items, LAMBDA item : item.id # id)

\* C25: a timer that fires for an id removes the item of that id when it is
\* in the list and completed, and otherwise leaves list, snapshot and
\* subscribers alone (no call of the store is made); either way the counters
\* and the other items stay, and the id leaves the pending set and the timer
\* map.
C25_FireDeletesOnlyCompleted ==
  [][(lastHandler' = "autoClearCallback") =>
       \A t \in armed :
         TimerFires(t) =>
           /\ IF \E i \in DOMAIN todos : todos[i].id = t.id /\ todos[i].completed
              THEN todos' = WithoutId(todos, t.id)
              ELSE UNCHANGED <<todos, backing, notified, ret, lastCall>>
           /\ nextId' = nextId
           /\ completedTotal' = completedTotal
           /\ t.id \notin pendingDeletionIds'
           /\ t.id \notin DOMAIN autoClearTimers']_vars

\* The timer of item 1 has fired after the item was made active again by a
\* direct call: the item is still in the list and nothing is pending.
C25_FireDeletesOnlyCompleted_Witness ==
  /\ lastHandler = "autoClearCallback"
  /\ issuedEver = {1}
  /\ \E i \in DOMAIN todos : todos[i].id = 1 /\ ~todos[i].completed
  /\ pendingDeletionIds = {}
  /\ DOMAIN autoClearTimers = {}

\* --------------------------------------------------------------------- C26
\* The ids of the items a step takes out of the list.
removedIds == {todos[i].id : i \in DOMAIN todos} \ {todos'[i].id : i \in DOMAIN todos'}

\* What C26 asks of a bulk operation: no removed item keeps a timer or stays
\* pending, and no timer armed before it is still armed after it.
bulkLeavesNoTimer ==
  /\ \A id \in removedIds :
       /\ id \notin pendingDeletionIds'
       /\ id \notin DOMAIN autoClearTimers'
       /\ \A t \in armed' : t.id # id
  /\ armed \cap armed' = {}

\* C26 as stated: clear-all (the controller's handler) and clear-completed
\* (the store's method, which no handler calls) both leave no timer behind.
C26_Original ==
  [][/\ (lastHandler' = "handleClearAll" /\ lastCall' = "clearAll") => bulkLeavesNoTimer
     /\ (lastHandler' = "direct" /\ lastCall' = "clearCompleted") => bulkLeavesNoTimer]_vars

\* --------------------------------------------------------------------- C27
timersOf(ts, id) == {t \in ts : t.id = id}

\* The ids of the items a step turns from active to completed.
newlyCompleted ==
  {todos'[i].id : i \in {j \in DOMAIN todos' :
      /\ todos'[j].completed
      /\ \E k \in DOMAIN todos : todos[k].id = todos'[j].id /\ ~todos[k].completed}}

\* C27: no id ever has two armed timers; a toggle handler that completes an
\* item calls clearTimeout on the timer the id had and leaves exactly one
\* armed timer for it; once the timer of an id has fired, no timer of that id
\* is left to fire again.
C27_OneTimerPerId ==
  /\ [](\A id \in IdInputs : Cardinality(timersOf(armed, id)) <= 1)
  /\ [][/\ (lastHandler' = "handleToggleTodo") =>
             \A id \in newlyCompleted :
               /\ timersOf(armed, id) \subseteq clearedTimers'
               /\ Cardinality(timersOf(armed', id)) = 1
        /\ (lastHandler' = "autoClearCallback") =>
             \A t \in armed : TimerFires(t) => timersOf(armed', t.id) = {}]_vars

\* Item 1 was completed through the handler while the timer of an earlier
\* completion was still armed (it had been made active again by a direct
\* call): the handler cleared that timer and one timer is armed.
C27_OneTimerPerId_Witness ==
  /\ lastHandler = "handleToggleTodo"
  /\ timersOf(clearedTimers, 1) # {}
  /\ Cardinality(timersOf(armed, 1)) = 1
  /\ \E i \in DOMAIN todos : todos[i].id = 1 /\ todos[i].completed

\* --------------------------------------------------------------------- C28
\* The timers that leave `armed` because they fire in this step.
firedTimers == IF lastHandler' = "autoClearCallback" THEN armed \ armed' ELSE {}

\* C28: between handlers and callbacks the pending set, the keys of the timer
\* map and the ids of the armed timers are one set, each map entry holding
\* the handle of the armed timer of its id; an id enters the pending set only
\* with an armed timer and leaves it exactly when its timer is cleared or
\* fires without a new one being armed.
C28_PendingIsArmed ==
  /\ [](/\ pendingDeletionIds = DOMAIN autoClearTimers
        /\ pendingDeletionIds = armedIds
        /\ \A id \in DOMAIN autoClearTimers :
             [handle |-> autoClearTimers[id], id |-> id] \in armed)
  /\ [][/\ pendingDeletionIds' \ pendingDeletionIds \subseteq armedIds'
        /\ pendingDeletionIds \ pendingDeletionIds' =
             {t.id : t \in clearedTimers' \cup firedTimers} \ armedIds']_vars

\* Both items are completed and wait for their timers.
C28_PendingIsArmed_Witness ==
  /\ pendingDeletionIds = {1, 2}
  /\ armedIds = {1, 2}
  /\ DOMAIN autoClearTimers = {1, 2}

\* --------------------------------------------------------------------- C29
\* C29: for an id without an armed timer cancelAutoClear returns the timer
\* state it was given (map, pending set, armed timers; nothing is cleared),
\* and applied twice it returns what it returns applied once; a confirmed
\* delete handler for such an id leaves every timer as it was and changes the
\* store by that deletion only.
C29_CancelWithoutTimerIsNoOp ==
  /\ [](\A id \in IdInputs :
          /\ id \notin armedIds => cancelAutoClear(TimerState, id) = TimerState
          /\ LET once == cancelAutoClear(TimerState, id)
             IN cancelAutoClear(once, id) = once)
  /\ [][(lastHandler' = "handleDeleteTodo") =>
          \A id \in IdInputs \ armedIds :
            handleDeleteTodo(NumId(id), "yes") =>
              /\ UNCHANGED <<autoClearTimers, pendingDeletionIds, armed>>
              /\ clearedTimers' = {}
              /\ todos' = WithoutId(todos, id)
              /\ UNCHANGED <<nextId, completedTotal>>]_vars

\* Item 1, never completed, was deleted through the handler while item 2
\* waited for its timer: nothing was cleared and that timer is still armed.
C29_CancelWithoutTimerIsNoOp_Witness ==
  /\ lastHandler = "handleDeleteTodo"
  /\ lastCall = "deleteTodo" /\ ret
  /\ clearedTimers = {}
  /\ issuedEver = {1, 2}
  /\ completedTotal = 1
  /\ Len(todos) = 1 /\ todos[1].id = 2 /\ todos[1].completed
  /\ armedIds = {2}

\* --------------------------------------------------------------------- C30
\* The ids no item of the list has.
unknownIds == IdInputs \ {todos[i].id : i \in DOMAIN todos}

\* C30: toggleComplete and deleteTodo called with an id no item has return
\* false, leave list, counters and snapshot as they are and invoke no
\* subscriber; the toggle handler called with such an id leaves every timer,
\* the timer map and the pending set as they are and clears nothing.
C30_UnknownIdChangesNothing ==
  [][(lastHandler' \in {"direct", "handleToggleTodo", "handleDeleteTodo"}) =>
       \A id \in unknownIds :
         /\ (lastCall' \in {"toggleComplete", "deleteTodo"}
               /\ (toggleComplete(id) \/ deleteTodo(id))) =>
              /\ ret' = FALSE
              /\ UNCHANGED <<todos, nextId, completedTotal, backing, appTodos>>
              /\ \A c \in AllCallbacks : notified'[c] = 0
         /\ handleToggleTodo(NumId(id)) =>
              /\ UNCHANGED <<autoClearTimers, pendingDeletionIds, armed>>
              /\ clearedTimers' = {}]_vars

\* A toggle of id 1 returned false after item 1 had been deleted by a direct
\* call while its timer was armed: the timer is still armed, nothing was
\* cleared.
C30_UnknownIdChangesNothing_Witness ==
  /\ lastHandler = "handleToggleTodo"
  /\ lastCall = "toggleComplete" /\ ~ret
  /\ todos = <<>>
  /\ issuedEver = {1}
  /\ armedIds = {1} /\ pendingDeletionIds = {1}
  /\ clearedTimers = {}

\* --------------------------------------------------------------------- C31
\* The sequence without its element at position i.
WithoutIndex(s, i) == SubSeq(s, 1, i - 1) \o SubSeq(s, i + 1, Len(s))

\* C31: a deleteTodo(id) that returns true takes out the one item of that id
\* and leaves the others as they were and where they were, relative to each
\* other; nextId and completedTotal stay; the addTodo that follows gives an
\* id never given before, so not the deleted one.
C31_DeleteRemovesExactlyOne ==
  [][/\ (lastCall' = "deleteTodo" /\ ret') =>
          \A id \in 1..MaxListId :
            DeleteTodoStep(id) =>
              /\ Cardinality({i \in DOMAIN todos : todos[i].id = id}) = 1
              /\ \E i \in DOMAIN todos : todos[i].id = id /\ todos' = WithoutIndex(todos, i)
              /\ UNCHANGED <<nextId, completedTotal>>
     /\ (lastCall = "deleteTodo" /\ ret /\ lastCall' = "addTodo" /\ ret') =>
          /\ todos'[Len(todos')].id \notin issuedEver
          /\ todos'[Len(todos')].id = nextId]_vars

\* The middle one of three items was deleted: items 1 and 3 are left, in
\* that order, and the counter still stands at 4.
C31_DeleteRemovesExactlyOne_Witness ==
  /\ lastCall = "deleteTodo" /\ ret
  /\ Len(todos) = 2 /\ todos[1].id = 1 /\ todos[2].id = 3
  /\ nextId = 4

\* --------------------------------------------------------------------- C32
\* Nothing of the store, of its snapshot, of its subscribers' calls or of the
\* controller's timers changes, and no timer is cleared.
declinedChangesNothing ==
  /\ UNCHANGED <<todos, nextId, completedTotal, backing, appTodos>>
  /\ UNCHANGED <<notified, ret, lastCall>>
  /\ UNCHANGED <<autoClearTimers, pendingDeletionIds, armed>>
  /\ clearedTimers' = {}

\* C32: a delete or clear-all handler whose prompt answers no or throws
\* changes nothing; on a yes the delete handler clears the timer of the id
\* and removes the item, and the clear-all handler clears every timer and
\* empties the list.
C32_DeclinedPromptChangesNothing ==
  [][/\ (lastHandler' = "handleDeleteTodo") =>
          \A e \in EventIds :
            /\ \A outcome \in {"no", "throws"} :
                 handleDeleteTodo(e, outcome) => declinedChangesNothing
            /\ (e.type = "number" /\ handleDeleteTodo(e, "yes")) =>
                 /\ timersOf(armed, e.n) \subseteq clearedTimers'
                 /\ timersOf(armed', e.n) = {}
                 /\ todos' = WithoutId(todos, e.n)
     /\ (lastHandler' = "handleClearAll") =>
          /\ \A outcome \in {"no", "throws"} :
               handleClearAll(outcome) => declinedChangesNothing
          /\ (handleClearAll("yes") /\ appTodos # <<>>) =>
               /\ clearedTimers' = armed
               /\ armed' = {} /\ pendingDeletionIds' = {}
               /\ todos' = <<>>]_vars

\* The clear-all handler ran over a list of one completed item whose timer is
\* armed, and list and timer are as before: the prompt was not answered yes.
C32_DeclinedPromptChangesNothing_Witness ==
  /\ lastHandler = "handleClearAll"
  /\ lastCall = "toggleComplete"
  /\ Len(todos) = 1 /\ todos[1].completed
  /\ armedIds = {1} /\ pendingDeletionIds = {1}

\* --------------------------------------------------------------------- C33
\* C33: in every state of a store started empty each item's text has at
\* least one character and neither begins nor ends with white space.
C33_TextsAreTrimmedAndNonEmpty ==
  \A i \in DOMAIN todos :
    /\ todos[i].text # <<>>
    /\ todos[i].text[1] \notin WhiteSpace
    /\ todos[i].text[Len(todos[i].text)] \notin WhiteSpace

\* The one item, added as "a", was given the text " b c<tab>" by updateTodo
\* and holds "b c".
C33_TextsAreTrimmedAndNonEmpty_Witness ==
  /\ lastCall = "updateTodo" /\ ret
  /\ issuedEver = {1}
  /\ Len(todos) = 1 /\ todos[1].text = <<"b", " ", "c">>

\* --------------------------------------------------------------------- C34
\* C34: in every state of a store started empty an item's wasCounted is true
\* exactly when the item was completed at least once, so a completed item has
\* it; an item is created with wasCounted false, and no call turns the
\* wasCounted of an item that stays in the list from true to false.
C34_WasCountedIffEverCompleted ==
  /\ [](\A i \in DOMAIN todos :
          /\ todos[i].wasCounted <=> todos[i].id \in everCompleted
          /\ todos[i].completed => todos[i].wasCounted)
  /\ [][/\ (lastCall' = "addTodo" /\ ret') => ~todos'[Len(todos')].wasCounted
        /\ (lastCall' # "clearAll") =>
             \A i \in DOMAIN todos, j \in DOMAIN todos' :
               (todos[i].id = todos'[j].id /\ todos[i].wasCounted) => todos'[j].wasCounted]_vars

\* Item 1 was completed and made active again, then its text was updated: it
\* is active and still counted.
C34_WasCountedIffEverCompleted_Witness ==
  /\ lastCall = "updateTodo" /\ ret
  /\ issuedEver = {1}
  /\ Len(todos) = 1 /\ ~todos[1].completed /\ todos[1].wasCounted

\* --------------------------------------------------------------------- C35
\* C35: in every state of the controller reached through its handlers and
\* timer callbacks, each pending id is the id of an item that is in the
\* store and completed.
C35_PendingItemsAreCompleted ==
  \A id \in pendingDeletionIds :
    \E i \in DOMAIN todos : todos[i].id = id /\ todos[i].completed

\* Item 2 is completed and pending while item 1 is active.
C35_PendingItemsAreCompleted_Witness ==
  /\ pendingDeletionIds = {2}
  /\ Len(todos) = 2
  /\ todos[1].id = 1 /\ ~todos[1].completed
  /\ todos[2].id = 2 /\ todos[2].completed

\* --------------------------------------------------------------------- C36
\* C36: every armed timer belongs to an item of the list that was completed
\* since the latest clear-all, so never to an item that merely has the id of
\* one cleared away; the clear-all handler clears every armed timer; and a
\* timer that fires removes no item of another id.
C36_NoStaleTimerAfterClearAll ==
  /\ [](\A t \in armed :
          /\ t.id \in everCompleted
          /\ \E i \in DOMAIN todos : todos[i].id = t.id /\ todos[i].completed)
  /\ [][/\ (lastHandler' = "handleClearAll" /\ lastCall' = "clearAll" /\ ret') =>
             (clearedTimers' \cup armed' = armed /\ armed' = {})
        /\ (lastHandler' = "autoClearCallback") =>
             \A t \in armed : TimerFires(t) => removedIds \subseteq {t.id}]_vars

\* The clear-all handler emptied the list while the timer of item 1 was
\* armed, and cleared it.
C36_NoStaleTimerAfterClearAll_Witness ==
  /\ lastHandler = "handleClearAll"
  /\ lastCall = "clearAll" /\ ret
  /\ timersOf(clearedTimers, 1) # {}
  /\ armed = {}
  /\ todos = <<>> /\ nextId = 1

\* C37: the step that detaches the controller cancels every timer that was
\* armed (each one is cleared, none stays armed, the map and the
\* pending-deletion set are empty) and drops its subscription without touching
\* the store; afterwards no timer is armed and no timer callback runs; and
\* from then on a call
\* that changes the store does not invoke the controller's subscriber
\* callback, whose copy of the list stays as it was.
C37_DisconnectCancelsTimersAndSubscription ==
  [][/\ (lastHandler' = "disconnectedCallback") =>
          /\ armed' = {}
          /\ clearedTimers' = armed
          /\ DOMAIN autoClearTimers' = {}
          /\ pendingDeletionIds' = {}
          /\ appListener \notin listeners'
          /\ UNCHANGED <<todos, nextId, completedTotal, backing>>
     /\ appListener \notin listeners =>
          /\ appListener \notin listeners'
          /\ armed' = {}
          /\ lastHandler' # "autoClearCallback"
          /\ appTodos' = appTodos
          /\ (<<todos, nextId, completedTotal>>' # <<todos, nextId, completedTotal>>)
               => notified'[appListener] = 0]_vars

\* The controller was detached while the timer of completed item 1 was armed;
\* the timer was cleared, the item is still in the list.
C37_DisconnectCancelsTimersAndSubscription_Witness ==
  /\ lastHandler = "disconnectedCallback"
  /\ timersOf(clearedTimers, 1) # {}
  /\ armed = {}
  /\ appListener \notin listeners
  /\ \E i \in DOMAIN todos : todos[i].id = 1 /\ todos[i].completed

\* C38 (as stated): a store constructed over whatever the backend holds, also
\* after commits of which only some saves succeeded, has nextId above the id
\* of every item it loaded, and the first addTodo after the construction
\* creates an item whose id no other item of the list has.
C38_Original ==
  [][/\ (lastCall' = "constructor") =>
          \A i \in DOMAIN todos' : todos'[i].id < nextId'
     /\ (lastCall = "constructor" /\ lastCall' = "addTodo" /\ ret') =>
          \A i \in DOMAIN todos : todos[i].id # todos'[Len(todos')].id]_vars

====
